---- MODULE Spec2Model ----
(***************************************************************************)
(* Model of lib/lrs-core/api.js of cloud-lrs: the startup sequence (init,  *)
(* initializeServer), the process-level uncaught-exception handler and the *)
(* authorization middleware registered on the API router.                  *)
(*                                                                         *)
(* JavaScript strings that the code takes apart (URLs, cookie names) are   *)
(* sequences of one-character strings; other values are atomic strings.    *)
(***************************************************************************)
EXTENDS Integers, Sequences, FiniteSets, TLC

VARIABLES
    pc,             \* position of init / initializeServer
    proc,           \* "running" or "exited"
    exitCode,       \* exit status once proc = "exited"
    uncaughtHandler,\* TRUE once process.on('uncaughtException', ...) has run
    errorLog,       \* entries written by log.error in the handler
    stderr,         \* reports written by the runtime when no handler is registered
    thrown,         \* number of uncaught exceptions raised so far
    dbErr,          \* what DB.init passed to its callback
    modErr,         \* what Modules.init passed to its callback
    appServer,      \* module.exports.appServer: the mounts of the app server
    apiRouter,      \* module.exports.apiRouter: the stack of the API router
    lrsModules,     \* Modules.getAvailableModules()
    restFiles,      \* the modules whose lib/<module>/rest.js exists on disk
    probeIdx,       \* number of modules _.each has visited
    probed,         \* per visited module: the outcome of fs.existsSync
    required,       \* the rest.js files loaded through require, in order
    callbackCalls,  \* the arguments init's callback was invoked with
    events,         \* history of the startup stages, in order
    req             \* the requests: what each carries and what happened to it

startupVars == <<pc, dbErr, modErr, appServer, apiRouter, probeIdx, probed,
                 required, callbackCalls, events>>
envVars == <<lrsModules, restFiles>>
procVars == <<proc, exitCode, uncaughtHandler, errorLog, stderr, thrown>>
vars == <<pc, proc, exitCode, uncaughtHandler, errorLog, stderr, thrown, dbErr,
          modErr, appServer, apiRouter, lrsModules, restFiles, probeIdx, probed,
          required, callbackCalls, events, req>>

----------------------------------------------------------------------------
(* Bounds *)

MaxModules == 2      \* number of module names known to the module loader
MaxSegLen == 2       \* characters in a tenant domain / course id
MaxThrown == 1       \* uncaught exceptions raised in one run
NumRequests == 2     \* requests in flight at once

ModuleNames == 1..MaxModules
Requests == 1..NumRequests

----------------------------------------------------------------------------
(* JavaScript values *)

Undefined == "<undefined>"
False == "<false>"
\* The first argument of a callback that reports no error (absent or null).
NoError == "<no error>"
Falsy == {Undefined, False, "", NoError}

Truthy(v) == v \notin Falsy

RECURSIVE SeqsOfLen(_, _)
SeqsOfLen(S, k) ==
    IF k = 0 THEN {<<>>} ELSE {Append(s, x) : s \in SeqsOfLen(S, k - 1), x \in S}

\* The sequences over S of length 1..n.
SeqsUpTo(S, n) == {s : s \in UNION {SeqsOfLen(S, k) : k \in 1..n}}

----------------------------------------------------------------------------
(* The environment of the startup sequence *)

\* A list of module names without repetitions.
ModuleLists ==
    {l \in UNION {[1..k -> ModuleNames] : k \in 0..MaxModules} :
        \A i, j \in 1..Len(l) : i # j => l[i] # l[j]}

\* What a collaborator passes to its callback as first argument.
CallbackErrors == {NoError, "error"}

Ev(stage, module) == [stage |-> stage, module |-> module]

----------------------------------------------------------------------------
(* process.on('uncaughtException', ...) *)

UncaughtMessage == "Uncaught exception was raised, restarting the process"

\* A handler that logs and keeps the process alive.
UncaughtExceptionHandler_NoExit ==
    /\ errorLog' = Append(errorLog, UncaughtMessage)
    /\ UNCHANGED <<proc, exitCode, stderr>>

\* The registered handler: log.error, then process.exit(1).
UncaughtExceptionHandler ==
    /\ errorLog' = Append(errorLog, UncaughtMessage)
    /\ proc' = "exited"
    /\ exitCode' = 1
    /\ UNCHANGED stderr

\* With no handler registered the runtime reports the exception on stderr and
\* exits with status 1.
RuntimeDefaultHandler ==
    /\ stderr' = Append(stderr, "uncaught exception")
    /\ proc' = "exited"
    /\ exitCode' = 1
    /\ UNCHANGED errorLog

\* An exception nobody catches, raised by whatever the process is running.
UncaughtException ==
    /\ proc = "running"
    /\ thrown < MaxThrown
    /\ thrown' = thrown + 1
    /\ IF uncaughtHandler THEN UncaughtExceptionHandler ELSE RuntimeDefaultHandler
    /\ UNCHANGED <<uncaughtHandler, startupVars, envVars, req>>

----------------------------------------------------------------------------
(* init *)

\* An init that starts module initialization without waiting for the database.
InitStart_NoWait ==
    /\ proc = "running"
    /\ pc = "start"
    /\ uncaughtHandler' = TRUE
    /\ events' = events \o <<Ev("db.start", 0), Ev("modules.start", 0)>>
    /\ pc' = "modules"
    /\ UNCHANGED <<proc, exitCode, errorLog, stderr, thrown, dbErr, modErr,
                   appServer, apiRouter, probeIdx, probed, required,
                   callbackCalls, envVars, req>>

\* init(callback) up to the call of DB.init: the globals are applied, the
\* uncaught-exception handler is registered and DB.init is started.
InitStart ==
    /\ proc = "running"
    /\ pc = "start"
    /\ uncaughtHandler' = TRUE
    /\ events' = Append(events, Ev("db.start", 0))
    /\ pc' = "db"
    /\ UNCHANGED <<proc, exitCode, errorLog, stderr, thrown, dbErr, modErr,
                   appServer, apiRouter, probeIdx, probed, required,
                   callbackCalls, envVars, req>>

\* The callback given to DB.init: it takes no parameter, so whatever DB.init
\* passes is dropped, and it starts Modules.init.
DBInitCallback(err) ==
    /\ proc = "running"
    /\ pc = "db"
    /\ dbErr' = err
    /\ events' = events \o <<Ev("db.done", 0), Ev("modules.start", 0)>>
    /\ pc' = "modules"
    /\ UNCHANGED <<procVars, modErr, appServer, apiRouter, probeIdx, probed,
                   required, callbackCalls, envVars, req>>

\* The callback given to Modules.init, up to the call of initializeServer.
ModulesInitCallback(err) ==
    /\ proc = "running"
    /\ pc = "modules"
    /\ modErr' = err
    /\ events' = Append(events, Ev("modules.done", 0))
    /\ pc' = "setUpServer"
    /\ UNCHANGED <<procVars, dbErr, appServer, apiRouter, probeIdx, probed,
                   required, callbackCalls, envVars, req>>

----------------------------------------------------------------------------
(* initializeServer *)

MountPath == "/api/:apidomain/:course"
AuthLayer == [kind |-> "auth", module |-> 0]
RestLayer(m) == [kind |-> "rest", module |-> m]

\* var appServer = module.exports.appServer = Server.setUpServer();
SetUpServer ==
    /\ proc = "running"
    /\ pc = "setUpServer"
    /\ appServer' = [created |-> TRUE, mounts |-> <<>>]
    /\ events' = Append(events, Ev("server.setup", 0))
    /\ pc' = "router"
    /\ UNCHANGED <<procVars, dbErr, modErr, apiRouter, probeIdx, probed,
                   required, callbackCalls, envVars, req>>

\* A router created without the authorization middleware on its stack.
CreateRouter_NoMiddleware ==
    /\ proc = "running"
    /\ pc = "router"
    /\ apiRouter' = [created |-> TRUE, stack |-> <<>>]
    /\ events' = events
    /\ pc' = "mount"
    /\ UNCHANGED <<procVars, dbErr, modErr, appServer, probeIdx, probed,
                   required, callbackCalls, envVars, req>>

\* The router is created and initializeAuthorizationMiddleware puts the
\* authorization middleware on its stack.
CreateRouter ==
    /\ proc = "running"
    /\ pc = "router"
    /\ apiRouter' = [created |-> TRUE, stack |-> <<AuthLayer>>]
    /\ events' = Append(events, Ev("auth.registered", 0))
    /\ pc' = "mount"
    /\ UNCHANGED <<procVars, dbErr, modErr, appServer, probeIdx, probed,
                   required, callbackCalls, envVars, req>>

\* appServer.use('/api/:apidomain/:course', apiRouter); then the module list
\* is read.
MountRouter ==
    /\ proc = "running"
    /\ pc = "mount"
    /\ appServer' = [appServer EXCEPT !.mounts = Append(appServer.mounts, MountPath)]
    /\ events' = Append(events, Ev("router.mounted", 0))
    /\ pc' = "probe"
    /\ UNCHANGED <<procVars, dbErr, modErr, apiRouter, probeIdx, probed,
                   required, callbackCalls, envVars, req>>

\* fs.existsSync(restFile) for the rest.js of module m.
RestFileExists_Always(m) == TRUE

RestFileExists(m) == m \in restFiles

\* A probe that gives up on the list at the first module without a rest.js.
NextProbeIdx_StopAtMissing(m) ==
    IF RestFileExists(m) THEN probeIdx + 1 ELSE Len(lrsModules)

\* _.each moves on to the next module whatever the probe found.
NextProbeIdx(m) == probeIdx + 1

\* One iteration of _.each(lrsModules, ...): the rest.js of the module is
\* probed and, when it exists, required; the file then registers its routes
\* on the shared API router.
ProbeModule ==
    /\ proc = "running"
    /\ pc = "probe"
    /\ probeIdx < Len(lrsModules)
    /\ LET m == lrsModules[probeIdx + 1] IN
        /\ probed' = Append(probed, [module |-> m, exists |-> RestFileExists(m)])
        /\ probeIdx' = NextProbeIdx(m)
        /\ IF RestFileExists(m)
           THEN /\ required' = Append(required, m)
                /\ apiRouter' = [apiRouter EXCEPT
                                    !.stack = Append(apiRouter.stack, RestLayer(m))]
                /\ events' = events \o <<Ev("probe", m), Ev("require", m)>>
           ELSE /\ events' = Append(events, Ev("probe", m))
                /\ UNCHANGED <<required, apiRouter>>
    /\ UNCHANGED <<procVars, pc, dbErr, modErr, appServer, callbackCalls,
                   envVars, req>>

\* What init passes to its callback: callback() is called without arguments.
InitCallbackArgument == NoError

\* A startup that finishes without telling its caller.
FinishInit_NoCallback ==
    /\ proc = "running"
    /\ pc = "probe"
    /\ probeIdx >= Len(lrsModules)
    /\ events' = Append(events, Ev("routes.done", 0))
    /\ pc' = "done"
    /\ UNCHANGED <<procVars, dbErr, modErr, appServer, apiRouter, probeIdx,
                   probed, required, callbackCalls, envVars, req>>

\* The list is exhausted: initializeServer returns and init calls back.
FinishInit ==
    /\ proc = "running"
    /\ pc = "probe"
    /\ probeIdx >= Len(lrsModules)
    /\ callbackCalls' = Append(callbackCalls, InitCallbackArgument)
    /\ events' = events \o <<Ev("routes.done", 0), Ev("callback", 0)>>
    /\ pc' = "done"
    /\ UNCHANGED <<procVars, dbErr, modErr, appServer, apiRouter, probeIdx,
                   probed, required, envVars, req>>

----------------------------------------------------------------------------
(* Strings: split, decodeURIComponent, encodeURIComponent *)

Str_api == <<"a", "p", "i">>

\* The characters encodeURIComponent leaves alone, among those of the model.
UnreservedChars == {"a", "p", "i", "_", "1", "2", "5", "6", "F"}

\* The two hexadecimal digits of the escape sequence of a character.
HexOf(c) ==
    CASE c = "/" -> <<"2", "F">>
      [] c = "_" -> <<"5", "F">>
      [] c = "%" -> <<"2", "5">>
      [] c = "a" -> <<"6", "1">>

EscapableChars == {"/", "_", "%", "a"}

RECURSIVE Split(_, _)
\* s.split(sep) for a one-character separator.
Split(s, sep) ==
    IF s = <<>> THEN << <<>> >>
    ELSE LET rest == Split(Tail(s), sep) IN
         IF Head(s) = sep
         THEN << <<>> >> \o rest
         ELSE << <<Head(s)>> \o Head(rest) >> \o Tail(rest)

RECURSIVE WellFormedURI(_)
\* The strings decodeURIComponent accepts (on the others it throws URIError).
WellFormedURI(s) ==
    IF s = <<>> THEN TRUE
    ELSE IF Head(s) = "%"
         THEN /\ Len(s) >= 3
              /\ \E c \in EscapableChars : HexOf(c) = <<s[2], s[3]>>
              /\ WellFormedURI(SubSeq(s, 4, Len(s)))
         ELSE WellFormedURI(Tail(s))

RECURSIVE DecodeURIComponent(_)
DecodeURIComponent(s) ==
    IF s = <<>> THEN <<>>
    ELSE IF Head(s) = "%"
         THEN <<CHOOSE c \in EscapableChars : HexOf(c) = <<s[2], s[3]>> >>
              \o DecodeURIComponent(SubSeq(s, 4, Len(s)))
         ELSE <<Head(s)>> \o DecodeURIComponent(Tail(s))

RECURSIVE EncodeURIComponent(_)
EncodeURIComponent(s) ==
    IF s = <<>> THEN <<>>
    ELSE (IF Head(s) \in UnreservedChars
          THEN <<Head(s)>>
          ELSE <<"%">> \o HexOf(Head(s)))
         \o EncodeURIComponent(Tail(s))

----------------------------------------------------------------------------
(* The authorization middleware *)

UnauthorizedStatus == 401
UnauthorizedBody == "Incorrect cookie information present"

\* req.signedCookies[name]: the jar is a set of cookies with distinct names.
SignedCookie(jar, name) ==
    IF \E c \in jar : c.name = name
    THEN (CHOOSE c \in jar : c.name = name).value
    ELSE Undefined

\* var cookieName = encodeURIComponent(apiDomain + '_' + courseId);
CookieName(apiDomain, courseId) ==
    EncodeURIComponent(apiDomain \o <<"_">> \o courseId)

\* A 401 that is sent without returning: the chain is continued as well.
Send401_AndContinue(rq) ==
    [rq EXCEPT !.res = [status |-> UnauthorizedStatus, body |-> UnauthorizedBody,
                        sent |-> TRUE],
               !.nextCalls = Append(rq.nextCalls, NoError),
               !.phase = "done"]

\* res.status(401).send('Incorrect cookie information present')
Send401(rq) ==
    [rq EXCEPT !.res = [status |-> UnauthorizedStatus, body |-> UnauthorizedBody,
                        sent |-> TRUE],
               !.phase = "done"]

\* next() and next(err)
CallNext(rq, arg) ==
    [rq EXCEPT !.nextCalls = Append(rq.nextCalls, arg), !.phase = "done"]

\* UsersAPI.getUser(userId, ...) is called; its callback is pending.
GetUser(rq, userId) ==
    [rq EXCEPT !.lookups = Append(rq.lookups, userId), !.phase = "lookup"]

\* A middleware that lets a request without cookie through.
AuthorizationMiddleware_NoReject(rq) ==
    IF rq.ctx # <<>>
    THEN CallNext(rq, NoError)
    ELSE LET parts == Split(rq.baseUrl, "/")
             apiDomain == DecodeURIComponent(parts[3])
             courseId == DecodeURIComponent(parts[4])
             userId == SignedCookie(rq.signedCookies, CookieName(apiDomain, courseId))
         IN IF ~Truthy(userId) THEN CallNext(rq, NoError) ELSE GetUser(rq, userId)

\* A middleware without the test of req.ctx.
AuthorizationMiddleware_NoCtxTest(rq) ==
    LET parts == Split(rq.baseUrl, "/")
        apiDomain == DecodeURIComponent(parts[3])
        courseId == DecodeURIComponent(parts[4])
        userId == SignedCookie(rq.signedCookies, CookieName(apiDomain, courseId))
    IN IF ~Truthy(userId) THEN Send401(rq) ELSE GetUser(rq, userId)

\* The function given to apiRouter.use, up to the call of UsersAPI.getUser.
\* split('/')[2] and [3] are the third and fourth parts.
AuthorizationMiddleware(rq) ==
    IF rq.ctx # <<>>
    THEN CallNext(rq, NoError)
    ELSE LET parts == Split(rq.baseUrl, "/")
             apiDomain == DecodeURIComponent(parts[3])
             courseId == DecodeURIComponent(parts[4])
             userId == SignedCookie(rq.signedCookies, CookieName(apiDomain, courseId))
         IN IF ~Truthy(userId) THEN Send401(rq) ELSE GetUser(rq, userId)

\* A callback that stores the user id of the cookie as the user.
GetUserCallback_StoresId(rq, err, user) ==
    IF Truthy(err)
    THEN CallNext(rq, err)
    ELSE CallNext([rq EXCEPT !.ctx = <<[user |-> rq.lookups[Len(rq.lookups)]]>>],
                  NoError)

\* A callback that answers a lookup error itself.
GetUserCallback_Responds(rq, err, user) ==
    IF Truthy(err)
    THEN [rq EXCEPT !.res = [status |-> 500, body |-> err, sent |-> TRUE],
                    !.phase = "done"]
    ELSE CallNext([rq EXCEPT !.ctx = <<[user |-> user]>>], NoError)

\* A callback that continues the chain without attaching the user.
GetUserCallback_NoAttach(rq, err, user) ==
    IF Truthy(err) THEN CallNext(rq, err) ELSE CallNext(rq, NoError)

\* A callback that looks the user up once more after a lookup error.
GetUserCallback_Retry(rq, err, user) ==
    IF Truthy(err)
    THEN IF Len(rq.lookups) < 2
         THEN GetUser(rq, rq.lookups[1])
         ELSE CallNext(rq, err)
    ELSE CallNext([rq EXCEPT !.ctx = <<[user |-> user]>>], NoError)

\* The callback given to UsersAPI.getUser.
GetUserCallback(rq, err, user) ==
    IF Truthy(err)
    THEN CallNext(rq, err)
    ELSE CallNext([rq EXCEPT !.ctx = IF rq.ctx # <<>>
                                     THEN <<[rq.ctx[1] EXCEPT !.user = user]>>
                                     ELSE <<[user |-> user]>>],
                  NoError)

----------------------------------------------------------------------------
(* Requests *)

\* A request the server has not received yet. pair, launch and ctx0 record
\* what the request was made of: the (tenantDomain, courseId) its path names,
\* the pair its cookie was set for, and the context it arrived with.
NewRequest ==
    [phase |-> "new", pair |-> <<>>, baseUrl |-> <<>>, launch |-> <<>>,
     signedCookies |-> {}, ctx0 |-> <<>>, ctx |-> <<>>,
     res |-> [status |-> 0, body |-> "", sent |-> FALSE],
     nextCalls |-> <<>>, lookups |-> <<>>, resolved |-> <<>>]

\* The characters of tenant domains and course ids.
Chars == {"_", "/"}

\* How a character can be written in a URL: as encodeURIComponent writes it,
\* or (the last one) as an escape sequence of an unreserved character.
CanonicalTokens ==
    {[raw |-> <<"_">>, char |-> "_"], [raw |-> <<"%", "2", "F">>, char |-> "/"]}
AllTokens ==
    {[raw |-> <<"_">>, char |-> "_"], [raw |-> <<"%", "2", "F">>, char |-> "/"],
     [raw |-> <<"%", "5", "F">>, char |-> "_"]}

RECURSIVE RawOf(_)
RawOf(ts) == IF ts = <<>> THEN <<>> ELSE Head(ts).raw \o RawOf(Tail(ts))

RECURSIVE CharsOf(_)
CharsOf(ts) == IF ts = <<>> THEN <<>> ELSE <<Head(ts).char>> \o CharsOf(Tail(ts))

\* The requests under /api/<tenantDomain>/<courseId>, with segments of at
\* most n characters written with the tokens T.
Urls(T, n) ==
    {[pair |-> <<CharsOf(d), CharsOf(c)>>,
      baseUrl |-> <<"/">> \o Str_api \o <<"/">> \o RawOf(d) \o <<"/">> \o RawOf(c)] :
        d \in SeqsUpTo(T, n), c \in SeqsUpTo(T, n)}

\* The name of the cookie the launch flow sets for a pair.
LaunchCookieName(d, c) == EncodeURIComponent(d \o <<"_">> \o c)

\* The values of a signed cookie: a user id, or false when the signature
\* does not verify.
CookieValues == {"u1", "u2", False}

\* The signed cookies of a request: none, or the cookie of one launch.
Jars(n) ==
    {j : j \in
        {[launch |-> <<>>, cookies |-> {}]} \cup
        {[launch |-> <<d, c>>,
          cookies |-> {[name |-> LaunchCookieName(d, c), value |-> v]}] :
            d \in SeqsUpTo(Chars, n), c \in SeqsUpTo(Chars, n), v \in CookieValues}}

\* req.ctx on arrival: undefined, or the context of a bookmarklet token.
Contexts == {<<>>, <<[user |-> "token user"]>>}

\* What UsersAPI.getUser passes to its callback.
LookupResults ==
    {[err |-> "lookup error", user |-> Undefined],
     [err |-> NoError, user |-> "user A"],
     [err |-> NoError, user |-> "user B"]}

\* The inputs of the whole-program specification: one-character segments,
\* in any spelling.
ShortUrls == Urls(AllTokens, 1)
ShortJars == Jars(1)

\* The inputs of the middleware specification: segments of up to MaxSegLen
\* characters, spelled as encodeURIComponent spells them.
LongUrls == Urls(CanonicalTokens, MaxSegLen)
LongJars == Jars(MaxSegLen)

Serving ==
    /\ proc = "running"
    /\ pc = "done"
    /\ appServer.created /\ MountPath \in {appServer.mounts[i] : i \in 1..Len(appServer.mounts)}
    /\ apiRouter.created /\ Len(apiRouter.stack) > 0 /\ apiRouter.stack[1] = AuthLayer

\* A middleware that registers itself on the API router again at each request.
HandleRequest_RegistersAgain(r, urls, jars) ==
    /\ Serving
    /\ req[r].phase = "new"
    /\ \E u \in urls, j \in jars, c \in Contexts :
        /\ WellFormedURI(u.baseUrl)
        /\ req' = [req EXCEPT ![r] = AuthorizationMiddleware(
                [NewRequest EXCEPT !.pair = u.pair, !.baseUrl = u.baseUrl,
                                   !.launch = j.launch, !.signedCookies = j.cookies,
                                   !.ctx0 = c, !.ctx = c])]
    /\ apiRouter' = [apiRouter EXCEPT !.stack = Append(apiRouter.stack, AuthLayer)]
    /\ UNCHANGED <<procVars, pc, dbErr, modErr, appServer, probeIdx, probed,
                   required, callbackCalls, events, envVars>>

\* Request r arrives under the mount path and the authorization middleware
\* runs on it.
HandleRequest(r, urls, jars) ==
    /\ Serving
    /\ req[r].phase = "new"
    /\ \E u \in urls, j \in jars, c \in Contexts :
        /\ WellFormedURI(u.baseUrl)
        /\ req' = [req EXCEPT ![r] = AuthorizationMiddleware(
                [NewRequest EXCEPT !.pair = u.pair, !.baseUrl = u.baseUrl,
                                   !.launch = j.launch, !.signedCookies = j.cookies,
                                   !.ctx0 = c, !.ctx = c])]
    /\ UNCHANGED <<procVars, startupVars, envVars>>

\* A callback that keeps the user in one place shared by all requests: every
\* request the server has received gets the user just resolved.
LookupCallback_SharedContext(r) ==
    /\ proc = "running"
    /\ req[r].phase = "lookup"
    /\ \E o \in LookupResults :
        req' = [s \in Requests |->
                  IF s = r
                  THEN GetUserCallback(
                          [req[r] EXCEPT !.resolved = Append(req[r].resolved, o)],
                          o.err, o.user)
                  ELSE IF o.err = NoError /\ req[s].phase # "new"
                       THEN [req[s] EXCEPT !.ctx = <<[user |-> o.user]>>]
                       ELSE req[s]]
    /\ UNCHANGED <<procVars, startupVars, envVars>>

\* UsersAPI.getUser calls back for request r.
LookupCallback(r) ==
    /\ proc = "running"
    /\ req[r].phase = "lookup"
    /\ \E o \in LookupResults :
        req' = [req EXCEPT ![r] =
                  GetUserCallback([req[r] EXCEPT !.resolved = Append(req[r].resolved, o)],
                                  o.err, o.user)]
    /\ UNCHANGED <<procVars, startupVars, envVars>>

----------------------------------------------------------------------------
(* Specifications *)

InitProcess ==
    /\ pc = "start"
    /\ proc = "running"
    /\ exitCode = 0
    /\ uncaughtHandler = FALSE
    /\ errorLog = <<>>
    /\ stderr = <<>>
    /\ thrown = 0
    /\ dbErr = "pending"
    /\ modErr = "pending"
    /\ appServer = [created |-> FALSE, mounts |-> <<>>]
    /\ apiRouter = [created |-> FALSE, stack |-> <<>>]
    /\ probeIdx = 0
    /\ probed = <<>>
    /\ required = <<>>
    /\ callbackCalls = <<>>
    /\ events = <<>>
    /\ req = [r \in Requests |-> NewRequest]

\* The whole program: any module list, any set of rest.js files.
Init ==
    /\ InitProcess
    /\ lrsModules \in ModuleLists
    /\ restFiles \in SUBSET ModuleNames

Next ==
    \/ InitStart
    \/ \E err \in CallbackErrors : DBInitCallback(err)
    \/ \E err \in CallbackErrors : ModulesInitCallback(err)
    \/ SetUpServer
    \/ CreateRouter
    \/ MountRouter
    \/ ProbeModule
    \/ FinishInit
    \/ UncaughtException
    \/ HandleRequest(1, ShortUrls, ShortJars)
    \/ LookupCallback(1)

Spec == Init /\ [][Next]_vars

\* One successful startup, then one request with the longer path segments.
InitAuth ==
    /\ InitProcess
    /\ lrsModules = <<1>>
    /\ restFiles = {1}

NextAuth ==
    \/ InitStart
    \/ DBInitCallback(NoError)
    \/ ModulesInitCallback(NoError)
    \/ SetUpServer
    \/ CreateRouter
    \/ MountRouter
    \/ ProbeModule
    \/ FinishInit
    \/ HandleRequest(1, LongUrls, LongJars)
    \/ LookupCallback(1)

SpecAuth == InitAuth /\ [][NextAuth]_vars

\* One successful startup, then NumRequests requests in flight at once, for
\* one course and with the cookie of one launch at most.
ConcurrentUrls == {u \in ShortUrls : u.pair[2] = <<"_">>}
ConcurrentJars ==
    {j \in ShortJars :
        \/ j.launch = <<>>
        \/ j.launch = << <<"_">>, <<"_">> >> /\ \A c \in j.cookies : c.value = "u1"}

NextConcurrent ==
    \/ InitStart
    \/ DBInitCallback(NoError)
    \/ ModulesInitCallback(NoError)
    \/ SetUpServer
    \/ CreateRouter
    \/ MountRouter
    \/ ProbeModule
    \/ FinishInit
    \/ \E r \in Requests : HandleRequest(r, ConcurrentUrls, ConcurrentJars)
    \/ \E r \in Requests : LookupCallback(r)

SpecConcurrent == InitAuth /\ [][NextConcurrent]_vars

----------------------------------------------------------------------------
(* Properties of the authorization middleware *)

Handled(r) == req[r].phase # "new"

\* The composite key of the request's (tenantDomain, courseId):
\* urlEncode(tenantDomain + "_" + courseId).
CompositeKey(r) == LaunchCookieName(req[r].pair[1], req[r].pair[2])

HasCompositeCookie(r) == \E c \in req[r].signedCookies : c.name = CompositeKey(r)

UnwrittenResponse == [status |-> 0, body |-> "", sent |-> FALSE]

\* C1: a request without context and without a cookie under the composite key
\* of its (tenantDomain, courseId) is answered 401 with the fixed body; no user
\* lookup is issued and next is never invoked.
C1_MissingCookieIs401 ==
    \A r \in Requests :
        (Handled(r) /\ req[r].ctx0 = <<>> /\ ~HasCompositeCookie(r)) =>
            /\ req[r].res = [status |-> 401,
                             body |-> "Incorrect cookie information present",
                             sent |-> TRUE]
            /\ req[r].lookups = <<>>
            /\ req[r].resolved = <<>>
            /\ req[r].nextCalls = <<>>
            /\ req[r].phase = "done"

\* A request for a pair whose jar holds the cookie of another launch only.
C1_Witness ==
    \E r \in Requests :
        /\ Handled(r) /\ req[r].ctx0 = <<>> /\ ~HasCompositeCookie(r)
        /\ req[r].signedCookies # {}
        /\ req[r].res.status = 401

\* C2: when a request without context carries the composite cookie and the
\* lookup of its user id completes without error, the context's user is the
\* value the resolver returned, next is invoked once without error and the
\* middleware writes no response.
C2_ResolvedUserAttached ==
    \A r \in Requests :
        (/\ req[r].ctx0 = <<>>
         /\ HasCompositeCookie(r)
         /\ req[r].resolved # <<>>
         /\ req[r].resolved[1].err = NoError) =>
            /\ req[r].ctx = <<[user |-> req[r].resolved[1].user]>>
            /\ req[r].lookups =
                   <<(CHOOSE c \in req[r].signedCookies : c.name = CompositeKey(r)).value>>
            /\ req[r].nextCalls = <<NoError>>
            /\ req[r].res = UnwrittenResponse

\* The path names a domain with a character that encodeURIComponent escapes.
C2_Witness ==
    \E r \in Requests :
        /\ req[r].ctx0 = <<>> /\ HasCompositeCookie(r)
        /\ req[r].resolved # <<>> /\ req[r].resolved[1].err = NoError
        /\ req[r].pair[1] = <<"/", "_">>
        /\ req[r].lookups = <<"u2">>
        /\ req[r].ctx = <<[user |-> "user B"]>>

\* C3: a request that arrives with a context passes through: next is invoked
\* without error, no lookup is issued, no response is written and the context
\* is the one it arrived with, whatever its path and cookies.
C3_ContextPassesThrough ==
    \A r \in Requests :
        (Handled(r) /\ req[r].ctx0 # <<>>) =>
            /\ req[r].nextCalls = <<NoError>>
            /\ req[r].lookups = <<>>
            /\ req[r].resolved = <<>>
            /\ req[r].res = UnwrittenResponse
            /\ req[r].ctx = req[r].ctx0
            /\ req[r].phase = "done"

\* A request with a context and with the composite cookie has passed.
C3_Witness ==
    \E r \in Requests :
        /\ Handled(r) /\ req[r].ctx0 # <<>> /\ HasCompositeCookie(r)
        /\ req[r].nextCalls = <<NoError>>

\* C4: when the lookup completes with an error, that error is passed to next,
\* the middleware writes no response and the request stays without context.
C4_LookupErrorPropagated ==
    \A r \in Requests :
        (req[r].resolved # <<>> /\ req[r].resolved[1].err # NoError) =>
            /\ req[r].nextCalls = <<req[r].resolved[1].err>>
            /\ req[r].res = UnwrittenResponse
            /\ req[r].ctx = <<>>
            /\ req[r].phase = "done"

C4_Witness ==
    \E r \in Requests :
        /\ req[r].resolved = <<[err |-> "lookup error", user |-> Undefined]>>
        /\ req[r].nextCalls = <<"lookup error">>

----------------------------------------------------------------------------
(* Properties of the startup sequence *)

Stages(evs) == {evs[i].stage : i \in 1..Len(evs)}

StageRank(e) ==
    CASE e.stage = "db.start" -> 1
      [] e.stage = "db.done" -> 2
      [] e.stage = "modules.start" -> 3
      [] e.stage = "modules.done" -> 4
      [] e.stage = "server.setup" -> 5
      [] e.stage = "auth.registered" -> 6
      [] e.stage = "router.mounted" -> 7
      [] e.stage = "probe" -> 8
      [] e.stage = "require" -> 8
      [] e.stage = "routes.done" -> 9
      [] e.stage = "callback" -> 10

AuthRegistered ==
    apiRouter.created /\ Len(apiRouter.stack) > 0 /\ apiRouter.stack[1] = AuthLayer

Mounted == appServer.created /\ appServer.mounts = <<MountPath>>

\* C5: the stages of init run in strict order: the database callback fires
\* before module init starts, module init completes before the server is set
\* up, server setup, middleware registration and mounting precede route
\* discovery, and init's callback comes after route discovery has finished.
C5_StagesInStrictOrder ==
    /\ \A i \in 1..Len(events) :
          IF i = 1 THEN StageRank(events[i]) = 1
          ELSE LET p == StageRank(events[i - 1])
                   q == StageRank(events[i])
               IN \/ q = p + 1
                  \/ p = 8 /\ q = 8
                  \/ p = 7 /\ q = 9
    /\ "modules.start" \in Stages(events) => dbErr # "pending"
    /\ modErr # "pending" => "modules.start" \in Stages(events)
    /\ appServer.created => modErr # "pending"
    /\ apiRouter.created => appServer.created
    /\ appServer.mounts # <<>> => AuthRegistered
    /\ probed # <<>> => AuthRegistered /\ Mounted
    /\ callbackCalls # <<>> => Len(probed) = Len(lrsModules) /\ Mounted
    /\ Len(callbackCalls) <= 1
    /\ \A r \in Requests : Handled(r) => callbackCalls # <<>>

\* init has called back after probing two modules.
C5_Witness ==
    /\ pc = "done"
    /\ callbackCalls # <<>>
    /\ Len(probed) = 2
    /\ Len(required) = 1

\* C6: a failure of an earlier stage keeps the later stages from running:
\* after a database failure module init, server setup and route discovery do
\* not run, and after a module-init failure server setup and route discovery
\* do not run.
C6_FailurePreventsLaterStages ==
    /\ dbErr = "error" =>
          /\ "modules.start" \notin Stages(events)
          /\ ~appServer.created
          /\ probed = <<>>
    /\ modErr = "error" =>
          /\ ~appServer.created
          /\ probed = <<>>

\* C7: init reports initialization errors through its callback: its callback
\* gets an error whenever DB.init or Modules.init called back with one, and
\* gets no error only when every stage succeeded.
C7_ErrorsReachTheCallback ==
    \A i \in 1..Len(callbackCalls) :
        callbackCalls[i] = NoError <=> (dbErr = NoError /\ modErr = NoError)

RECURSIVE SelectExisting(_)
\* The modules of a list that have a rest.js, in the order of the list.
SelectExisting(l) ==
    IF l = <<>> THEN <<>>
    ELSE (IF Head(l) \in restFiles THEN <<Head(l)>> ELSE <<>>) \o SelectExisting(Tail(l))

\* C8: route discovery visits the modules in the order of the module list,
\* within server initialization; a rest.js is loaded exactly when it exists,
\* and a missing one is skipped without error and without ending the probe of
\* the remaining modules.
C8_RouteDiscoveryFollowsTheList ==
    /\ Len(probed) <= Len(lrsModules)
    /\ \A i \in 1..Len(probed) :
          /\ probed[i].module = lrsModules[i]
          /\ probed[i].exists <=> lrsModules[i] \in restFiles
    /\ required = SelectExisting(SubSeq(lrsModules, 1, Len(probed)))
    /\ pc = "done" => Len(probed) = Len(lrsModules)
    /\ probed # <<>> => pc \in {"probe", "done"}
    /\ thrown = 0 => proc = "running" /\ errorLog = <<>> /\ stderr = <<>>
    /\ \A r \in Requests : Handled(r) => Len(probed) = Len(lrsModules)

\* A list whose first module has no rest.js and whose second has one.
C8_Witness ==
    /\ pc = "done"
    /\ Len(lrsModules) = 2
    /\ lrsModules[1] \notin restFiles
    /\ lrsModules[2] \in restFiles
    /\ required = <<lrsModules[2]>>
    /\ thrown = 0

----------------------------------------------------------------------------
(* The process *)

HandlerRegistered == "db.start" \in Stages(events)

\* C9: an uncaught exception ends the process: the error is logged and the
\* process exits with a non-zero status, and the process never keeps running
\* after one. From the start of database init on, startup stages and request
\* processing alike, the report is the handler's log entry.
C9_UncaughtExceptionIsFatal ==
    thrown > 0 =>
        /\ proc = "exited"
        /\ exitCode # 0
        /\ errorLog # <<>> \/ stderr # <<>>
        /\ HandlerRegistered => errorLog = <<UncaughtMessage>>

\* An exception raised while a user lookup is pending.
C9_Witness ==
    /\ thrown > 0
    /\ proc = "exited"
    /\ \E r \in Requests : req[r].phase = "lookup"
    /\ errorLog # <<>>

----------------------------------------------------------------------------
(* Scope of the cookie *)

\* C10: a cookie set for one (tenantDomain, courseId) pair never authorizes a
\* request for a different pair: such a request, arriving without context,
\* gets 401 and no lookup.
C10_CookieScopedToItsPair ==
    \A r \in Requests :
        (/\ Handled(r)
         /\ req[r].ctx0 = <<>>
         /\ req[r].launch # <<>>
         /\ req[r].launch # req[r].pair) =>
            /\ req[r].res.status = 401
            /\ req[r].lookups = <<>>

----------------------------------------------------------------------------
(* Concurrent requests *)

\* The context request r must hold, given what happened to r alone.
OwnContext(r) ==
    IF req[r].ctx0 # <<>> THEN req[r].ctx0
    ELSE IF req[r].resolved # <<>> /\ req[r].resolved[1].err = NoError
         THEN <<[user |-> req[r].resolved[1].user]>>
         ELSE <<>>

\* C11: the requests are independent under every interleaving: the context of
\* a request holds what its own lookup resolved and nothing of another
\* request's, and a pending lookup of one request blocks neither the arrival
\* and handling of another request nor the completion of another lookup.
C11_RequestsAreIndependent ==
    \A r \in Requests :
        /\ req[r].ctx = OwnContext(r)
        /\ req[r].phase = "lookup" => ENABLED LookupCallback(r)
        /\ (req[r].phase = "new" /\ pc = "done") =>
              ENABLED HandleRequest(r, ConcurrentUrls, ConcurrentJars)

\* Request 2 was resolved to a user while the lookup of request 1, issued
\* for the same user id, is still pending.
C11_Witness ==
    /\ req[1].phase = "lookup"
    /\ req[1].lookups = <<"u1">>
    /\ req[2].phase = "done"
    /\ req[2].lookups = <<"u1">>
    /\ req[2].ctx = <<[user |-> "user B"]>>

\* The lookups of request r whose callback has not been called yet.
InFlight(r) == Len(req[r].lookups) - Len(req[r].resolved)

\* C12: a request sees at most one user lookup in its lifetime: never two in
\* flight, none after a 401 and none re-issued after a lookup error; once the
\* request is done the middleware takes no further step for it.
C12_AtMostOneLookup ==
    \A r \in Requests :
        /\ Len(req[r].lookups) <= 1
        /\ InFlight(r) \in {0, 1}
        /\ InFlight(r) = 1 <=> req[r].phase = "lookup"
        /\ req[r].res.sent => req[r].lookups = <<>>
        /\ req[r].resolved # <<>> => req[r].phase = "done"
        /\ req[r].phase = "done" =>
              /\ ~ENABLED LookupCallback(r)
              /\ ~ENABLED HandleRequest(r, LongUrls, LongJars)

\* The one lookup of a request has failed and the request is done.
C12_Witness ==
    \E r \in Requests :
        /\ req[r].phase = "done"
        /\ req[r].lookups = <<"u2">>
        /\ req[r].resolved = <<[err |-> "lookup error", user |-> Undefined]>>

----------------------------------------------------------------------------
(* The API router and the shared handles *)

\* The position of the first event of a stage in the history, 0 if none.
FirstEvent(stage) ==
    IF stage \in Stages(events)
    THEN CHOOSE i \in 1..Len(events) :
            /\ events[i].stage = stage
            /\ \A j \in 1..(i - 1) : events[j].stage # stage
    ELSE 0

\* Express runs the layers of a router in the order of its stack, and runs
\* the layers behind the middleware once the middleware has called next().
ReachesRoutes(r) == req[r].nextCalls = <<NoError>>

\* C13: the authorization middleware is on the API router, and the router is
\* mounted under /api/:apidomain/:course, before any rest.js is loaded: the
\* middleware is the first layer of the router and every layer of a module
\* lies behind it, so a request reaches a module's endpoint only after the
\* middleware has run for it.
C13_MiddlewareBeforeModuleRoutes ==
    /\ required # <<>> =>
          /\ AuthRegistered /\ Mounted
          /\ FirstEvent("auth.registered") > 0
          /\ FirstEvent("auth.registered") < FirstEvent("require")
          /\ FirstEvent("router.mounted") > 0
          /\ FirstEvent("router.mounted") < FirstEvent("require")
    /\ \A i \in 1..Len(apiRouter.stack) :
          apiRouter.stack[i].kind = "rest" =>
              /\ i > 1
              /\ apiRouter.stack[1] = AuthLayer
    /\ {apiRouter.stack[i].module : i \in 2..Len(apiRouter.stack)} =
          {required[i] : i \in 1..Len(required)}
    /\ \A r \in Requests :
          ReachesRoutes(r) => Handled(r) /\ apiRouter.stack[1] = AuthLayer

\* Two modules have put their routes on the router and a request has passed
\* the middleware on its way to them.
C13_Witness ==
    /\ Len(required) = 2
    /\ Len(apiRouter.stack) = 3
    /\ \E r \in Requests : ReachesRoutes(r) /\ req[r].resolved # <<>>

\* A step of request processing: some request changes.
RequestStep == req' # req

\* C14: request processing never modifies the handles set up at startup
\* (module registry, database state, app server, API router): a step of the
\* middleware, whichever it is, changes one request's own record only.
C14_HandlesUntouchedByRequests ==
    [][RequestStep =>
          /\ UNCHANGED <<lrsModules, restFiles, required, probed, probeIdx,
                         dbErr, modErr, appServer, apiRouter, pc, events,
                         callbackCalls>>
          /\ UNCHANGED procVars
          /\ \E r \in Requests :
                \A s \in Requests : s # r => req'[s] = req[s]]_vars

\* Both requests have gone through a lookup and the router is as startup
\* left it.
C14_Witness ==
    /\ \A r \in Requests : req[r].phase = "done" /\ req[r].resolved # <<>>
    /\ apiRouter = [created |-> TRUE, stack |-> <<AuthLayer, RestLayer(1)>>]
    /\ appServer = [created |-> TRUE, mounts |-> <<MountPath>>]

----------------------------------------------------------------------------
(* Outcomes of the middleware *)

Responded(r) == req[r].res.sent
Continued(r) == req[r].nextCalls # <<>> /\ req[r].nextCalls[1] = NoError
Failed(r) == req[r].nextCalls # <<>> /\ req[r].nextCalls[1] # NoError

\* The number of outcomes request r has had.
Outcomes(r) == (IF Responded(r) THEN 1 ELSE 0) + Len(req[r].nextCalls)

\* C15: the middleware gives a request at most one outcome: the 401 response,
\* next() or next(err); it never both responds and calls next and never calls
\* next twice. A request that is done has had exactly one outcome, a request
\* that is not has had none.
C15_OneOutcomePerRequest ==
    \A r \in Requests :
        /\ Outcomes(r) <= 1
        /\ Len(req[r].nextCalls) <= 1
        /\ ~(Responded(r) /\ req[r].nextCalls # <<>>)
        /\ req[r].phase = "done" <=> Outcomes(r) = 1
        /\ Responded(r) => req[r].res.status = UnauthorizedStatus

\* The three outcomes are reached: here the one of a failed lookup.
C15_Witness ==
    \E r \in Requests :
        /\ req[r].phase = "done"
        /\ Failed(r)
        /\ ~Responded(r)
        /\ Outcomes(r) = 1

\* C16: no unauthenticated request reaches the route handlers: a request for
\* which next() was called without error carries a context, either the one
\* it arrived with or one made by the middleware that holds the user a
\* successful lookup of its cookie's user id returned.
C16_ContinuedRequestsCarryContext ==
    \A r \in Requests :
        Continued(r) =>
            /\ req[r].ctx # <<>>
            /\ \/ req[r].ctx0 # <<>> /\ req[r].ctx = req[r].ctx0
               \/ /\ req[r].ctx0 = <<>>
                  /\ Len(req[r].resolved) = 1
                  /\ req[r].resolved[1].err = NoError
                  /\ req[r].ctx = <<[user |-> req[r].resolved[1].user]>>
                  /\ \E c \in req[r].signedCookies :
                        Truthy(c.value) /\ req[r].lookups = <<c.value>>

\* A request that arrived without context continues with the resolved user.
C16_Witness ==
    \E r \in Requests :
        /\ Continued(r)
        /\ req[r].ctx0 = <<>>
        /\ req[r].lookups = <<"u1">>
        /\ req[r].ctx = <<[user |-> "user A"]>>

----------------------------------------------------------------------------
(* Termination of the startup *)

\* The startup alone: no request is served.
NextStartup ==
    \/ InitStart
    \/ \E err \in CallbackErrors : DBInitCallback(err)
    \/ \E err \in CallbackErrors : ModulesInitCallback(err)
    \/ SetUpServer
    \/ CreateRouter
    \/ MountRouter
    \/ ProbeModule
    \/ FinishInit
    \/ UncaughtException

\* The statements that follow the module callback run to completion in one
\* turn of the event loop, so each of them is taken once it is enabled. The
\* two collaborators are not obliged to call back.
SpecLive ==
    /\ Init
    /\ [][NextStartup]_vars
    /\ WF_vars(SetUpServer)
    /\ WF_vars(CreateRouter)
    /\ WF_vars(MountRouter)
    /\ WF_vars(ProbeModule)
    /\ WF_vars(FinishInit)

BothCalledBack == dbErr # "pending" /\ modErr # "pending"

====
